---- MODULE Spec2Model ----
(***************************************************************************)
(* Model of the authentication app of supernova-be                         *)
(* (src/authentication/models.py): the UserManager (create_user,           *)
(* create_superuser), the User model and its JWT token property, and the   *)
(* BlackList model with delete_tokens_older_than_a_day.                    *)
(*                                                                         *)
(* The request handlers (authentication/views.py: login, logout, token     *)
(* validation) are not part of the sources; they are modelled from the     *)
(* written specification and drive the code of models.py.                  *)
(*                                                                         *)
(* Strings are sequences of one-character strings.  Time is counted in     *)
(* ticks, TicksPerSec ticks to the second, so that datetime.now() has a    *)
(* sub-second part which int(strftime('%s')) drops.                        *)
(***************************************************************************)
EXTENDS Integers, Sequences, FiniteSets, TLC

VARIABLES
    clock,      \* datetime.now(), in ticks
    nAdv,       \* number of clock advances so far (bounds the model)
    users,      \* rows of the User table
    nextId,     \* next primary key of the User table
    blacklist,  \* rows of the BlackList table
    pc,         \* per registration request: where it stands
    inst,       \* per registration request: the unsaved User instance
    purging,    \* whether the periodic purge task is between its two statements
    past_24,    \* local past_24 of the purge task
    out,        \* the last response given by a request handler
    issued,     \* history: tokens returned by login, with time and user
    insertedAt  \* history: when each token was inserted into BlackList (no column holds it)

vars == <<clock, nAdv, users, nextId, blacklist, pc, inst, purging,
          past_24, out, issued, insertedAt>>

---------------------------------------------------------------------------
(* Bounds of the model *)

NProcs == 2
MaxLedger == 2
MaxAdv == 2
MaxTokens == 1
TicksPerSec == 2

Procs == 1..NProcs

---------------------------------------------------------------------------
(* Program constants *)

\* timedelta(hours=24)
HOURS == 24
SecsPerHour == 3600
DayTicks == HOURS * SecsPerHour * TicksPerSec

\* settings.SECRET_KEY and the algorithm of jwt.encode
SECRET_KEY == "SECRET_KEY"
ALGORITHM == "HS256"

---------------------------------------------------------------------------
(* Python values: str and None *)

Str(s) == [t |-> "str", s |-> s]
None == [t |-> "NoneType", s |-> <<>>]

\* Python truthiness of a str-or-None value: `not x` is Falsy(x)
Falsy(x) == x.t = "NoneType" \/ Len(x.s) = 0

\* str.lower() on one character
Lower(c) ==
    CASE c = "B" -> "b"
      [] c = "X" -> "x"
      [] c = "A" -> "a"
      [] OTHER -> c

LowerStr(s) == [i \in 1..Len(s) |-> Lower(s[i])]

IsSpace(c) == c = " "

RECURSIVE LStrip(_)
LStrip(s) == IF s # <<>> /\ IsSpace(Head(s)) THEN LStrip(Tail(s)) ELSE s

RECURSIVE RStrip(_)
RStrip(s) ==
    IF s # <<>> /\ IsSpace(s[Len(s)]) THEN RStrip(SubSeq(s, 1, Len(s) - 1)) ELSE s

\* str.strip()
Strip(s) == RStrip(LStrip(s))

\* positions of "@" in s
AtPositions(s) == {i \in 1..Len(s) : s[i] = "@"}

Max(S) == CHOOSE m \in S : \A n \in S : n <= m

\* BaseUserManager.normalize_email: email = email or ''; strip, rsplit('@', 1),
\* lower-case the domain part only; a value without '@' is returned as it is.
normalize_email(email) ==
    LET e == IF Falsy(email) THEN <<>> ELSE email.s
        st == Strip(e)
    IN  IF AtPositions(st) = {}
        THEN Str(e)
        ELSE LET k == Max(AtPositions(st))
             IN  Str(SubSeq(st, 1, k - 1) \o <<"@">> \o
                     LowerStr(SubSeq(st, k + 1, Len(st))))

\* set_password: an irreversible salted hash; check_password verifies against it
make_password(pw) == <<"pbkdf2_sha256", pw.s>>
check_password(pw, hash) == pw.t = "str" /\ make_password(pw) = hash

---------------------------------------------------------------------------
(* Inputs of the requests *)

Names == {None, Str(<<>>), Str(<<"a">>)}
Passwords == {None, Str(<<>>), Str(<<"p">>)}
LoginPasswords == {Str(<<"p">>), Str(<<"q">>)}
Emails == {None, Str(<<>>),
           Str(<<"b", "@", "x">>), Str(<<"B", "@", "x">>),
           Str(<<"b", "@", "X">>), Str(<<" ", "b", "@", "x">>)}

\* emails presented at login: registered, unregistered, and variants in case and space
LoginEmails == {e \in Emails : ~Falsy(e)}

\* names and passwords that pass the required-field checks
ValidNames == {n \in Names : ~Falsy(n)}
ValidPasswords == {pw \in Passwords : ~Falsy(pw)}

\* the clock moves by one tick or by a whole day
Steps == {1, DayTicks}

---------------------------------------------------------------------------
(* The User model and its manager *)

\* self.model(**kwargs): an unsaved instance with the field defaults of
\* AbstractUser and of User (is_verified default False); pk is None (0) until saved
NewUser(first_name, last_name, email, username) ==
    [id |-> 0, first_name |-> first_name, last_name |-> last_name,
     email |-> email, username |-> username, password |-> <<>>,
     is_staff |-> FALSE, is_superuser |-> FALSE, is_active |-> TRUE,
     is_verified |-> FALSE]

NoInst == NewUser(None, None, None, None)

\* (variant: only username is unique)
UserConflictUsernameOnly(u, rows) ==
    \E r \in rows : u.username.t = "str" /\ r.username = u.username

\* unique=True on User.email and on User.username (NULL usernames never collide)
UserConflict(u, rows) ==
    \E r \in rows :
        \/ r.email = u.email
        \/ u.username.t = "str" /\ r.username = u.username

Response(op, arg, res, val) == [op |-> op, arg |-> arg, res |-> res, val |-> val]

NoResponse == Response("none", None, "none", None)

\* (variant: user.set_password(password) is left out)
UserInstanceNoPassword(first_name, last_name, email, password) ==
    NewUser(first_name, last_name, normalize_email(email), normalize_email(email))

\* the instance create_user builds: email and username both normalize_email(email)
UserInstance(first_name, last_name, email, password) ==
    [NewUser(first_name, last_name, normalize_email(email), normalize_email(email))
     EXCEPT !.password = make_password(password)]

\* (variant: user.is_verified = True is left out)
SuperuserInstanceNotVerified(first_name, last_name, email, password) ==
    [NewUser(first_name, last_name, normalize_email(email), None)
     EXCEPT !.is_staff = TRUE, !.is_superuser = TRUE, !.is_active = TRUE,
            !.password = make_password(password)]

\* the instance create_superuser builds: no username, the four flags set
SuperuserInstance(first_name, last_name, email, password) ==
    [NewUser(first_name, last_name, normalize_email(email), None)
     EXCEPT !.is_staff = TRUE, !.is_superuser = TRUE, !.is_active = TRUE,
            !.is_verified = TRUE, !.password = make_password(password)]

\* (variant: the password check is left out)
MissingFieldButPassword(first_name, last_name, email, password) ==
    IF Falsy(first_name) THEN "a first name."
    ELSE IF Falsy(last_name) THEN "a last name."
    ELSE IF Falsy(email) THEN "an email address."
    ELSE "nothing"

\* the first failing required-field check of create_user, in source order
MissingField(first_name, last_name, email, password) ==
    IF Falsy(first_name) THEN "a first name."
    ELSE IF Falsy(last_name) THEN "a last name."
    ELSE IF Falsy(email) THEN "an email address."
    ELSE IF Falsy(password) THEN "a password."
    ELSE "nothing"

\* UserManager.create_user up to user.set_password: the four required-field
\* checks, then the instance is built
create_user(p, first_name, last_name, email, password) ==
    /\ pc[p] = "idle"
    /\ IF MissingField(first_name, last_name, email, password) # "nothing"
       THEN /\ out' = Response("create_user", None, "TypeError",
                          MissingField(first_name, last_name, email, password))
            /\ UNCHANGED <<pc, inst>>
       ELSE /\ inst' = [inst EXCEPT ![p] =
                          UserInstance(first_name, last_name, email, password)]
            /\ pc' = [pc EXCEPT ![p] = "create_user_save"]
            /\ UNCHANGED out
    /\ UNCHANGED <<clock, nAdv, users, nextId, blacklist, purging,
                   past_24, issued, insertedAt>>

\* Model.save() of a new instance: one INSERT, which the unique constraints
\* of the table accept or reject as a whole
Save(p, op, returned) ==
    /\ IF UserConflict(inst[p], users)
       THEN /\ out' = Response(op, inst[p].email, "IntegrityError", None)
            /\ UNCHANGED <<users, nextId>>
       ELSE /\ users' = users \cup {[inst[p] EXCEPT !.id = nextId]}
            /\ nextId' = nextId + 1
            /\ out' = Response(op, inst[p].email, "ok",
                          IF returned THEN [inst[p] EXCEPT !.id = nextId] ELSE None)
    /\ pc' = [pc EXCEPT ![p] = "idle"]
    /\ inst' = [inst EXCEPT ![p] = NoInst]
    /\ UNCHANGED <<clock, nAdv, blacklist, purging, past_24, issued,
                   insertedAt>>

\* UserManager.create_user: user.save(); return user
create_user_save(p) ==
    /\ pc[p] = "create_user_save"
    /\ Save(p, "create_user", TRUE)

\* UserManager.create_superuser up to user.set_password
create_superuser(p, first_name, last_name, email, password) ==
    /\ pc[p] = "idle"
    /\ IF MissingField(first_name, last_name, email, password) # "nothing"
       THEN /\ out' = Response("create_superuser", None, "TypeError",
                          MissingField(first_name, last_name, email, password))
            /\ UNCHANGED <<pc, inst>>
       ELSE /\ inst' = [inst EXCEPT ![p] =
                          SuperuserInstance(first_name, last_name, email, password)]
            /\ pc' = [pc EXCEPT ![p] = "create_superuser_save"]
            /\ UNCHANGED out
    /\ UNCHANGED <<clock, nAdv, users, nextId, blacklist, purging,
                   past_24, issued, insertedAt>>

\* UserManager.create_superuser: user.save(); nothing is returned
create_superuser_save(p) ==
    /\ pc[p] = "create_superuser_save"
    /\ Save(p, "create_superuser", FALSE)

---------------------------------------------------------------------------
(* Tokens *)

\* the HS256 signature of jwt.encode over header and payload; delta is the
\* difference of the signature bytes from the true MAC (0: none)
Sign(key, header, payload) ==
    [key |-> key, header |-> header, payload |-> payload, delta |-> 0]

\* jwt.encode(payload, key, algorithm): header.payload.signature
jwt_encode(claims, key, algorithm) ==
    LET payload == <<claims.id, claims.email, claims.exp>>
    IN  [header |-> algorithm, payload |-> payload,
         signature |-> Sign(key, algorithm, payload)]

\* the claims read back from the payload segment of a token
jwt_claims(token) ==
    [id |-> token.payload[1], email |-> token.payload[2], exp |-> token.payload[3]]

\* (variant: rounds up to the next second)
ToEpochSecondsCeil(t) == t \div TicksPerSec + 1

\* int(token_expiry.strftime('%s')): whole seconds, the sub-second part dropped
ToEpochSeconds(t) == t \div TicksPerSec

\* (variant: the 24 hours are subtracted)
_generate_jwt_token_past(user, now) ==
    LET token_expiry == now - DayTicks
    IN  jwt_encode([id |-> user.id, email |-> user.email.s,
                    exp |-> ToEpochSeconds(token_expiry)],
                   SECRET_KEY, ALGORITHM)

\* (variant: the token also carries a serial number, the count of tokens issued)
_generate_jwt_token_serial(user, now) ==
    LET token_expiry == now + DayTicks
        payload == <<user.id, user.email.s, ToEpochSeconds(token_expiry),
                     Cardinality(issued)>>
    IN  [header |-> ALGORITHM, payload |-> payload,
         signature |-> Sign(SECRET_KEY, ALGORITHM, payload)]

\* User._generate_jwt_token at time now
_generate_jwt_token(user, now) ==
    LET token_expiry == now + DayTicks
    IN  jwt_encode([id |-> user.id, email |-> user.email.s,
                    exp |-> ToEpochSeconds(token_expiry)],
                   SECRET_KEY, ALGORITHM)

\* a token with one byte of its signature segment changed
Tamper(token) == [token EXCEPT !.signature.delta = 1]

IssuedTokens == {i.token : i \in issued}

\* token strings a client may present
TokenInputs == IssuedTokens \cup {Tamper(t) : t \in IssuedTokens}

---------------------------------------------------------------------------
(* The BlackList model *)

\* the declared column of BlackList (its automatic primary key is left out)
BlackListFields == {"token"}

\* (variant: token is not unique)
BlackListNoConflict(token, rows) == FALSE

\* unique=True on BlackList.token
BlackListConflict(token, rows) == \E r \in rows : r.token = token

\* BlackList.objects.filter(<field>__lt=bound): an unknown field name raises
\* FieldError when the filter is built
FilterLt(rows, field, bound) ==
    IF field \notin BlackListFields
    THEN [err |-> "FieldError", rows |-> {}]
    ELSE [err |-> "ok", rows |-> {r \in rows : r[field] < bound}]

\* delete_tokens_older_than_a_day, first statement: past_24 = now - 24 hours
delete_tokens_older_than_a_day ==
    /\ ~purging
    /\ past_24' = clock - DayTicks
    /\ purging' = TRUE
    /\ UNCHANGED <<clock, nAdv, users, nextId, blacklist, pc, inst, out,
                   issued, insertedAt>>

\* (variant: BlackList.objects.all().delete())
delete_all_tokens ==
    /\ purging
    /\ blacklist' = {}
    /\ out' = Response("purge", None, "ok", None)
    /\ purging' = FALSE
    /\ past_24' = 0
    /\ UNCHANGED <<clock, nAdv, users, nextId, pc, inst, issued, insertedAt>>

\* delete_tokens_older_than_a_day, second statement:
\* BlackList.objects.filter(created_at__lt=past_24).delete(); returns nothing
delete_tokens_older_than_a_day_delete ==
    /\ purging
    /\ LET q == FilterLt(blacklist, "created_at", past_24)
       IN  IF q.err # "ok"
           THEN /\ out' = Response("purge", None, q.err, None)
                /\ UNCHANGED blacklist
           ELSE /\ blacklist' = blacklist \ q.rows
                /\ out' = Response("purge", None, "ok", None)
    /\ purging' = FALSE
    /\ past_24' = 0
    /\ UNCHANGED <<clock, nAdv, users, nextId, pc, inst, issued, insertedAt>>

---------------------------------------------------------------------------
(* The request handlers of the views, from the written specification *)

\* verifyCredentials(email, password): the users matching the normalized
\* email whose stored hash verifies the password
verifyCredentials(email, password) ==
    {u \in users : u.email = normalize_email(email)
                   /\ check_password(password, u.password)}

\* (variant: an unknown email and a wrong password are answered differently)
LoginDistinguishing(email, password) ==
    /\ IF verifyCredentials(email, password) = {}
       THEN /\ out' = Response("login", None, "AuthFailure",
                          IF \E u \in users : u.email = normalize_email(email)
                          THEN "Wrong password." ELSE "No such user.")
            /\ UNCHANGED issued
       ELSE \E u \in verifyCredentials(email, password) :
            LET token == _generate_jwt_token(u, clock)
                entry == [token |-> token, at |-> clock, user |-> u.id]
            IN  /\ Cardinality(issued \cup {entry}) <= MaxTokens
                /\ issued' = issued \cup {entry}
                /\ out' = Response("login", None, "ok", token)
    /\ UNCHANGED <<clock, nAdv, users, nextId, blacklist, pc, inst,
                   purging, past_24, insertedAt>>

\* login(email, password): verifyCredentials, then user.token; at most cap
\* issuances are followed
LoginWithin(cap, email, password) ==
    /\ IF verifyCredentials(email, password) = {}
       THEN /\ out' = Response("login", None, "AuthFailure", "Invalid credentials.")
            /\ UNCHANGED issued
       ELSE \E u \in verifyCredentials(email, password) :
            LET token == _generate_jwt_token(u, clock)
                entry == [token |-> token, at |-> clock, user |-> u.id]
            IN  /\ Cardinality(issued \cup {entry}) <= cap
                /\ issued' = issued \cup {entry}
                /\ out' = Response("login", None, "ok", token)
    /\ UNCHANGED <<clock, nAdv, users, nextId, blacklist, pc, inst,
                   purging, past_24, insertedAt>>

\* login(email, password)
Login(email, password) == LoginWithin(MaxTokens, email, password)

\* (variant: a user is revoked, not a token string)
isRevokedByUser(token, rows) ==
    \E r \in rows : jwt_claims(r.token).id = jwt_claims(token).id

\* isRevoked(token): membership in the ledger
isRevoked(token, rows) == \E r \in rows : r.token = token

\* (variant: revocation is looked up first, the signature last)
ValidateAtRevocationFirst(token, now, rows) ==
    IF isRevoked(token, rows)
    THEN [res |-> "Revoked", val |-> None]
    ELSE IF now > jwt_claims(token).exp * TicksPerSec
    THEN [res |-> "Expired", val |-> None]
    ELSE IF token.signature # Sign(SECRET_KEY, token.header, token.payload)
    THEN [res |-> "Malformed", val |-> None]
    ELSE [res |-> "ok",
          val |-> [id |-> jwt_claims(token).id, email |-> jwt_claims(token).email]]

\* validate(token) at time now against the ledger rows: signature, then
\* expiry (now > expiry), then revocation
ValidateAt(token, now, rows) ==
    IF token.signature # Sign(SECRET_KEY, token.header, token.payload)
    THEN [res |-> "Malformed", val |-> None]
    ELSE IF now > jwt_claims(token).exp * TicksPerSec
    THEN [res |-> "Expired", val |-> None]
    ELSE IF isRevoked(token, rows)
    THEN [res |-> "Revoked", val |-> None]
    ELSE [res |-> "ok",
          val |-> [id |-> jwt_claims(token).id, email |-> jwt_claims(token).email]]

Validate(token) ==
    /\ out' = Response("validate", token, ValidateAt(token, clock, blacklist).res,
                       ValidateAt(token, clock, blacklist).val)
    /\ UNCHANGED <<clock, nAdv, users, nextId, blacklist, pc, inst,
                   purging, past_24, issued, insertedAt>>

\* logout(token) = revoke(token): one INSERT into BlackList, rejected by the
\* unique constraint on token when the string is already there
Logout(token) ==
    /\ IF BlackListConflict(token, blacklist)
       THEN /\ out' = Response("logout", token, "IntegrityError", None)
            /\ UNCHANGED <<blacklist, insertedAt>>
       ELSE /\ Cardinality(blacklist) < MaxLedger
            /\ blacklist' = blacklist \cup {[token |-> token]}
            /\ insertedAt' = insertedAt \cup {[token |-> token, at |-> clock]}
            /\ out' = Response("logout", token, "ok", None)
    /\ UNCHANGED <<clock, nAdv, users, nextId, pc, inst, purging, past_24, issued>>

---------------------------------------------------------------------------
(* The clock *)

Tick(d) ==
    /\ nAdv < MaxAdv
    /\ clock' = clock + d
    /\ nAdv' = nAdv + 1
    /\ UNCHANGED <<users, nextId, blacklist, pc, inst, purging, past_24,
                   out, issued, insertedAt>>

---------------------------------------------------------------------------
(* The system *)

\* the state after construction: empty tables, no request in flight
Init ==
    /\ clock = 0
    /\ nAdv = 0
    /\ users = {}
    /\ nextId = 1
    /\ blacklist = {}
    /\ pc = [p \in Procs |-> "idle"]
    /\ inst = [p \in Procs |-> NoInst]
    /\ purging = FALSE
    /\ past_24 = 0
    /\ out = NoResponse
    /\ issued = {}
    /\ insertedAt = {}

\* the requests on the User table
NextUsers ==
    \/ \E p \in Procs, fn \in Names, ln \in Names, em \in Emails, pw \in Passwords :
           create_user(p, fn, ln, em, pw)
    \/ \E p \in Procs : create_user_save(p)
    \/ \E p \in Procs, fn \in Names, ln \in Names, em \in Emails, pw \in Passwords :
           create_superuser(p, fn, ln, em, pw)
    \/ \E p \in Procs : create_superuser_save(p)

\* the requests on tokens and on the BlackList table, and the clock
NextTokens ==
    \/ \E d \in Steps : Tick(d)
    \/ \E em \in LoginEmails, pw \in LoginPasswords : Login(em, pw)
    \/ \E t \in TokenInputs : Validate(t)
    \/ \E t \in TokenInputs : Logout(t)
    \/ delete_tokens_older_than_a_day
    \/ delete_tokens_older_than_a_day_delete

\* the whole system; the specifications below restrict it to the requests
\* on one table, from a state it reaches
Next == NextUsers \/ NextTokens

Spec == Init /\ [][Next]_vars

\* concurrent registrations on an empty User table
SpecUsers == Init /\ [][NextUsers]_vars

\* registrations handled one at a time, by the first request handler
NextSequential ==
    \/ \E fn \in Names, ln \in Names, em \in Emails, pw \in Passwords :
           create_user(1, fn, ln, em, pw)
    \/ create_user_save(1)
    \/ \E fn \in Names, ln \in Names, em \in Emails, pw \in Passwords :
           create_superuser(1, fn, ln, em, pw)
    \/ create_superuser_save(1)

SpecSequential == Init /\ [][NextSequential]_vars

\* the user that create_user(a, a, b@x, p) saves in the empty table
SeedUser ==
    [UserInstance(Str(<<"a">>), Str(<<"a">>), Str(<<"b", "@", "x">>), Str(<<"p">>))
       EXCEPT !.id = 1]

\* the state right after that registration has returned

InitTokens ==
    /\ clock = 0
    /\ nAdv = 0
    /\ users = {SeedUser}
    /\ nextId = 2
    /\ blacklist = {}
    /\ pc = [p \in Procs |-> "idle"]
    /\ inst = [p \in Procs |-> NoInst]
    /\ purging = FALSE
    /\ past_24 = 0
    /\ out = Response("create_user", SeedUser.email, "ok", SeedUser)
    /\ issued = {}
    /\ insertedAt = {}

\* token requests, purges and the clock over a User table with one user
SpecTokens == InitTokens /\ [][NextTokens]_vars

\* register with all four fields given, one request at a time, and login
NextAccounts ==
    \/ \E fn \in ValidNames, ln \in ValidNames, em \in LoginEmails, pw \in LoginPasswords :
           create_user(1, fn, ln, em, pw)
    \/ create_user_save(1)
    \/ \E em \in LoginEmails, pw \in LoginPasswords : Login(em, pw)

\* registrations and logins on an empty User table
SpecAccounts == Init /\ [][NextAccounts]_vars

\* the whole service, one request at a time: registrations with all four
\* fields given, logins of registered users with their password, validate
\* and logout of issued tokens, the purge task and the clock
NextService ==
    \/ \E d \in Steps : Tick(d)
    \/ \E fn \in ValidNames, ln \in ValidNames, em \in LoginEmails, pw \in ValidPasswords :
           create_user(1, fn, ln, em, pw)
    \/ create_user_save(1)
    \/ \E u \in users, pw \in ValidPasswords : Login(u.email, pw)
    \/ \E t \in IssuedTokens : Validate(t)
    \/ \E t \in IssuedTokens : Logout(t)
    \/ delete_tokens_older_than_a_day
    \/ delete_tokens_older_than_a_day_delete

SpecService == InitTokens /\ [][NextService]_vars

\* sessions of the registered user: one login more than in the other
\* specifications, so that two tokens of one user are in use together
NextSessions ==
    \/ \E d \in Steps : Tick(d)
    \/ \E u \in users, pw \in ValidPasswords : LoginWithin(MaxTokens + 1, u.email, pw)
    \/ \E t \in IssuedTokens : Validate(t)
    \/ \E t \in IssuedTokens : Logout(t)

SpecSessions == InitTokens /\ [][NextSessions]_vars

---------------------------------------------------------------------------
(* Vocabulary of the properties *)

\* the time, in ticks, after which a token's exp claim has passed
ExpiryTicks(token) == jwt_claims(token).exp * TicksPerSec

\* logout(token) has inserted the token into the ledger at some time
WasInserted(token) == \E e \in insertedAt : e.token = token

\* the (latest) insertion time of a ledger row
InsertionTime(row) == Max({e.at : e \in {h \in insertedAt : h.token = row.token}})

AnyFalsy(first_name, last_name, email, password) ==
    Falsy(first_name) \/ Falsy(last_name) \/ Falsy(email) \/ Falsy(password)

\* row u is what create_user stores for the inputs email and password
RegisteredWith(u, email, password) ==
    u = [UserInstance(u.first_name, u.last_name, email, password) EXCEPT !.id = u.id]

\* a step that answers a login request: it touches neither clock nor ledger
AnswersLogin == out'.op = "login" /\ UNCHANGED <<clock, purging, blacklist>>

\* a step in which login has answered or issued
LoginStep == out'.op = "login" /\ (out' # out \/ issued' # issued)

\* some row holds the email, as login looks it up
EmailRegistered(email) == \E u \in users : u.email = normalize_email(email)

\* the value is a str in lower-cased and trimmed form
LowerCasedTrimmed(x) == x.t = "str" /\ x.s = LowerStr(Strip(x.s))

\* two stored emails that differ at most in letter case
SameIgnoringCase(e1, e2) == LowerStr(e1.s) = LowerStr(e2.s)

---------------------------------------------------------------------------
(* Properties *)

\* C1: once logout(t) has inserted an issued token t, every validate(t) at a
\* time not past t's expiry fails with Revoked.
C1_RevokedUntilExpiry ==
    [][\A t \in IssuedTokens :
         (Validate(t) /\ WasInserted(t) /\ clock <= ExpiryTicks(t))
             => (out'.res = "Revoked" /\ out'.val = None)]_vars

C1_Witness ==
    /\ out.op = "validate" /\ out.res = "Revoked"
    /\ out.arg \in IssuedTokens
    /\ WasInserted(out.arg)
    /\ clock <= ExpiryTicks(out.arg)

\* C2 (as claimed): the purge completes without error, removes exactly the
\* rows inserted earlier than T - 24h (T the time of the purge call), keeps
\* the others, and returns the number of rows removed.
C2_PurgeRemovesExactlyOld ==
    [][delete_tokens_older_than_a_day_delete =>
         LET old == {r \in blacklist : InsertionTime(r) < past_24}
         IN  /\ out'.res = "ok"
             /\ blacklist' = blacklist \ old
             /\ out'.val = Cardinality(old)]_vars

\* C3: a token whose signature does not verify is Malformed whether or not
\* it is expired or in the ledger; a correctly signed token that is expired
\* and in the ledger is Expired.
C3_SignatureThenExpiryThenRevocation ==
    [][\A t \in IssuedTokens :
         /\ Validate(Tamper(t)) => out'.res = "Malformed"
         /\ (Validate(t) /\ clock > ExpiryTicks(t) /\ isRevoked(t, blacklist))
                => out'.res = "Expired"]_vars

C3_Witness ==
    /\ out.op = "validate" /\ out.res = "Malformed"
    /\ \E t \in IssuedTokens :
         /\ out.arg = Tamper(t)
         /\ clock > ExpiryTicks(t)
         /\ isRevoked(Tamper(t), blacklist)
         /\ isRevoked(t, blacklist)

\* C4: validate of a token issued at t0 fails with Expired at every time
\* now > t0 + 24 hours, revoked or not.
C4_ExpiredAfterADay ==
    [][\A i \in issued :
         (Validate(i.token) /\ clock > i.at + DayTicks)
             => (out'.res = "Expired" /\ out'.val = None)]_vars

C4_Witness ==
    /\ out.op = "validate" /\ out.res = "Expired"
    /\ \E i \in issued : i.token = out.arg /\ clock > i.at + DayTicks
    /\ isRevoked(out.arg, blacklist)

\* C5: a token returned by login, validated at the time of its issuance
\* while it is not in the ledger, yields the id and email of the user who
\* logged in.
C5_FreshTokenValidates ==
    [][\A i \in issued :
         (Validate(i.token) /\ clock = i.at /\ ~isRevoked(i.token, blacklist))
             => /\ out'.res = "ok"
                /\ \E u \in users : /\ u.id = i.user
                                    /\ out'.val = [id |-> u.id, email |-> u.email.s]]_vars

C5_Witness ==
    /\ out.op = "validate" /\ out.res = "ok"
    /\ \E i \in issued : i.token = out.arg /\ i.at = clock
    /\ \E u \in users : out.val = [id |-> u.id, email |-> u.email.s]

\* C6: create_user with an empty or absent first name, last name, email or
\* password raises TypeError whatever the other fields, and the User table
\* is unchanged.
C6_MissingFieldRejected ==
    [][\A p \in Procs, fn \in Names, ln \in Names, em \in Emails, pw \in Passwords :
         (AnyFalsy(fn, ln, em, pw) /\ create_user(p, fn, ln, em, pw))
             => /\ out'.op = "create_user" /\ out'.res = "TypeError"
                /\ users' = users
                /\ pc'[p] = "idle"]_vars

C6_Witness ==
    /\ out.op = "create_user" /\ out.res = "TypeError"
    /\ out.val = "a password."
    /\ users # {}

\* C7 (as claimed): saving a registration whose email differs from a stored
\* email at most in letter case is rejected and leaves the table as it was.
C7_CaseInsensitiveConflict ==
    [][\A p \in Procs :
         (create_user_save(p) /\ \E r \in users : SameIgnoringCase(r.email, inst[p].email))
             => (out'.res = "IntegrityError" /\ users' = users)]_vars

\* C8 (as claimed): when a revoke runs between the two statements of a
\* purge (its row is inserted after the purge has read the clock), neither
\* fails and the new row is in the ledger afterwards.
C8_PurgeRaceKeepsInsert ==
    [][/\ \A t \in TokenInputs :
            (Logout(t) /\ purging /\ ~isRevoked(t, blacklist)) => out'.res = "ok"
       /\ (/\ delete_tokens_older_than_a_day_delete
           /\ \E e \in insertedAt : e.at > past_24 + DayTicks)
            => /\ out'.res = "ok"
               /\ \A r \in blacklist : InsertionTime(r) >= past_24 => r \in blacklist'
      ]_vars

\* C9: under any interleaving of create_user and create_superuser calls no
\* two rows of the User table hold the same email, and a save whose email a
\* row already holds is rejected and leaves the table as it was.
C9_UniqueEmail ==
    [][/\ \A u \in users', v \in users' : u.email = v.email => u = v
       /\ \A p \in Procs :
            (/\ create_user_save(p) \/ create_superuser_save(p)
             /\ \E r \in users : r.email = inst[p].email)
                => (out'.res = "IntegrityError" /\ users' = users)]_vars

C9_Witness ==
    /\ out.res = "IntegrityError"
    /\ \E p \in Procs : /\ pc[p] \in {"create_user_save", "create_superuser_save"}
                        /\ \E r \in users : r.email = inst[p].email

\* C10: each token string is in at most one ledger row, and revoke(t) while
\* t is in the ledger is rejected and changes neither the rows nor their
\* insertion times.
C10_UniqueToken ==
    [][/\ \A r1 \in blacklist', r2 \in blacklist' : r1.token = r2.token => r1 = r2
       /\ \A t \in TokenInputs :
            (Logout(t) /\ isRevoked(t, blacklist))
                => /\ out'.res = "IntegrityError"
                   /\ blacklist' = blacklist
                   /\ insertedAt' = insertedAt]_vars

C10_Witness ==
    /\ out.op = "logout" /\ out.res = "IntegrityError"
    /\ isRevoked(out.arg, blacklist)
    /\ Cardinality({r \in blacklist : r.token = out.arg}) = 1

\* C11 (as claimed): the token login returns at time now carries the id and
\* the stored email of the user who logged in, and an expiry of exactly
\* now + 24 hours.
C11_ExpiryExactlyADay ==
    [][\A em \in LoginEmails, pw \in LoginPasswords :
         (AnswersLogin /\ out'.res = "ok" /\ Login(em, pw))
             => \E u \in verifyCredentials(em, pw) :
                    /\ jwt_claims(out'.val).id = u.id
                    /\ jwt_claims(out'.val).email = u.email.s
                    /\ ExpiryTicks(out'.val) = clock + DayTicks]_vars

\* C11 (amended): the token carries the id and the stored email of the user
\* who logged in, and as expiry the whole second of now + 24 hours: never
\* later than now + 24 hours and less than one second earlier, at every call.
C11_ExpiryWholeSecondOfADay ==
    [][\A em \in LoginEmails, pw \in LoginPasswords :
         (AnswersLogin /\ out'.res = "ok" /\ Login(em, pw))
             => \E u \in verifyCredentials(em, pw) :
                    /\ jwt_claims(out'.val).id = u.id
                    /\ jwt_claims(out'.val).email = u.email.s
                    /\ ExpiryTicks(out'.val) <= clock + DayTicks
                    /\ clock + DayTicks < ExpiryTicks(out'.val) + TicksPerSec]_vars

C11_Witness ==
    /\ out.op = "login" /\ out.res = "ok"
    /\ clock % TicksPerSec # 0
    /\ \E i \in issued : i.token = out.val /\ i.at = clock
    /\ ExpiryTicks(out.val) < clock + DayTicks

\* C12: a registration with four non-empty fields whose email no row holds
\* succeeds and returns the new row; from then on verifyCredentials with the
\* email and password of the registration finds exactly that user, and a
\* login with them is answered with a token of that user.
C12_RegisterThenVerify ==
    [][/\ (/\ create_user_save(1)
           /\ ~\E r \in users : r.email = inst[1].email)
            => /\ out'.res = "ok"
               /\ out'.val \in users' \ users
               /\ out'.val.email = inst[1].email
       /\ \A u \in users', em \in LoginEmails, pw \in LoginPasswords :
            RegisteredWith(u, em, pw) => verifyCredentials(em, pw)' = {u}
       /\ \A u \in users, em \in LoginEmails, pw \in LoginPasswords :
            (AnswersLogin /\ RegisteredWith(u, em, pw) /\ Login(em, pw))
                => /\ out'.res = "ok"
                   /\ jwt_claims(out'.val).id = u.id]_vars

C12_Witness ==
    /\ out.op = "login" /\ out.res = "ok"
    /\ Cardinality(users) = 2
    /\ \E u \in users :
         /\ RegisteredWith(u, Str(<<" ", "b", "@", "x">>), Str(<<"q">>))
         /\ jwt_claims(out.val).id = u.id

\* C13: every login that is not answered with a token, be it for a
\* registered email with a wrong password or for an email no row holds, is
\* answered with one and the same AuthFailure (kind and message, naming no
\* email) and issues no token; credentials that do not verify are never
\* answered with a token.
C13_SameAuthFailure ==
    [][/\ (AnswersLogin /\ out'.res # "ok")
            => /\ out' = Response("login", None, "AuthFailure", "Invalid credentials.")
               /\ issued' = issued
       /\ (AnswersLogin /\ out'.res = "ok")
            => \A em \in LoginEmails, pw \in LoginPasswords :
                   verifyCredentials(em, pw) = {} => ~Login(em, pw)]_vars

C13_Witness ==
    /\ out.op = "login" /\ out.res = "AuthFailure"
    /\ \E em \in LoginEmails, pw \in LoginPasswords :
         EmailRegistered(em) /\ verifyCredentials(em, pw) = {}
    /\ \E em \in LoginEmails : ~EmailRegistered(em)
    /\ issued # {}

\* C14 (as claimed): a create_user that succeeds returns the row it has
\* added to the User table; the row's email and username are the same
\* lower-cased and trimmed form of the email given, and its is_verified,
\* is_staff and is_superuser are false.
C14_CreatedUserNormalized ==
    [][\A p \in Procs :
         (create_user_save(p) /\ out'.res = "ok")
             => /\ out'.val \in users' \ users
                /\ out'.val.email = inst[p].email
                /\ out'.val.username = out'.val.email
                /\ LowerCasedTrimmed(out'.val.email)
                /\ ~out'.val.is_verified
                /\ ~out'.val.is_staff
                /\ ~out'.val.is_superuser]_vars

\* C15: create_superuser with an empty or absent first name, last name,
\* email or password raises TypeError and adds no row; a create_superuser
\* that succeeds adds a row with is_staff, is_superuser, is_active and
\* is_verified all true; a row added by create_user has is_staff,
\* is_superuser and is_verified all false.
C15_SuperuserFlags ==
    [][/\ \A fn \in Names, ln \in Names, em \in Emails, pw \in Passwords :
            (AnyFalsy(fn, ln, em, pw) /\ create_superuser(1, fn, ln, em, pw))
                => /\ out'.op = "create_superuser" /\ out'.res = "TypeError"
                   /\ out'.val = MissingField(fn, ln, em, pw)
                   /\ users' = users
                   /\ pc'[1] = "idle"
       /\ \A p \in Procs :
            (create_superuser_save(p) /\ out'.res = "ok")
                => \E r \in users' \ users :
                       /\ r.email = inst[p].email
                       /\ r.is_staff /\ r.is_superuser /\ r.is_active /\ r.is_verified
       /\ \A p \in Procs :
            create_user_save(p)
                => \A r \in users' \ users :
                       ~r.is_staff /\ ~r.is_superuser /\ ~r.is_verified]_vars

C15_Witness ==
    /\ out.op = "create_superuser" /\ out.res = "ok"
    /\ \E r \in users :
         /\ r.email = out.arg
         /\ r.is_staff /\ r.is_superuser /\ r.is_active /\ r.is_verified
    /\ \E r \in users : ~r.is_staff /\ ~r.is_superuser /\ ~r.is_verified

\* C16: a login, and with it the issuance of a token, leaves the User table
\* and the ledger as they were; the token issued for a user at a time is
\* the token issued before for that user at that time, and it depends on
\* nothing in the state but the user and the clock.
C16_IssuanceIsPure ==
    [][/\ LoginStep
            => /\ users' = users /\ nextId' = nextId
               /\ blacklist' = blacklist /\ insertedAt' = insertedAt
       /\ (LoginStep /\ out'.res = "ok")
            => \A i \in issued :
                   (i.at = clock /\ i.user = jwt_claims(out'.val).id)
                       => i.token = out'.val
       /\ clock' = clock
            => \A u \in users :
                   _generate_jwt_token(u, clock)' = _generate_jwt_token(u, clock)]_vars

C16_Witness ==
    /\ out.op = "login" /\ out.res = "ok"
    /\ isRevoked(out.val, blacklist)
    /\ \E e \in insertedAt : e.token = out.val /\ e.at = clock
    /\ \E i \in issued : i.token = out.val /\ i.at = clock

\* C17: a run of the purge changes the outcome of validate for no issued
\* and revoked token, now or at any later time; a row of an issued token
\* leaves the ledger only after that token's expiry; and validate of an
\* issued token that has been revoked never succeeds.
C17_PurgeKeepsValidate ==
    [][/\ (delete_tokens_older_than_a_day \/ delete_tokens_older_than_a_day_delete)
            => \A t \in IssuedTokens, d \in {0} \cup Steps :
                   WasInserted(t)
                       => ValidateAt(t, clock + d, blacklist')
                              = ValidateAt(t, clock + d, blacklist)
       /\ \A r \in blacklist :
            (r \notin blacklist' /\ r.token \in IssuedTokens)
                => clock > ExpiryTicks(r.token)
       /\ \A t \in IssuedTokens :
            (WasInserted(t) /\ Validate(t)) => out'.res \in {"Revoked", "Expired"}]_vars

C17_Witness ==
    /\ out.op = "purge"
    /\ \E i \in issued :
         /\ isRevoked(i.token, blacklist)
         /\ \E e \in insertedAt : e.token = i.token /\ e.at >= i.at
         /\ clock <= ExpiryTicks(i.token)
         /\ ValidateAt(i.token, clock, blacklist).res = "Revoked"

C19_RevocationPerToken ==
    [][\A t1 \in IssuedTokens :
         (out'.op = "logout" /\ Logout(t1))
             => \A t2 \in TokenInputs \ {t1}, d \in {0} \cup Steps :
                    ValidateAt(t2, clock + d, blacklist')
                        = ValidateAt(t2, clock + d, blacklist)]_vars

C19_Witness ==
    /\ out.op = "validate" /\ out.res = "ok"
    /\ \E i1 \in issued, i2 \in issued :
         /\ i1.user = i2.user /\ i1.at # i2.at /\ i1.token # i2.token
         /\ isRevoked(i1.token, blacklist)
         /\ clock <= ExpiryTicks(i1.token)
         /\ out.arg = i2.token

====
